---- MODULE Spec2Model ----
(***************************************************************************)
(* A model of Bio/Sequencing/SamBam/bgzf.py: the BGZF virtual offset       *)
(* arithmetic, the block writer (BgzfWriter), the block decoder            *)
(* (_load_bgzf_block, BgzfBlocks) and the reader (BgzfReader).             *)
(*                                                                         *)
(* Representation.  Python integers are unbounded while TLC's are 32 bit,  *)
(* so a file offset or a virtual offset is a "big" number: a record        *)
(* [neg, mag] whose magnitude is a little-endian sequence of 16 bit limbs  *)
(* without leading zero limbs.  Byte strings are run-length encoded: a     *)
(* sequence of runs <<byte, count>> with count > 0 and no two neighbouring *)
(* runs of the same byte, so that equal strings have equal encodings.      *)
(***************************************************************************)
EXTENDS Integers, Sequences, FiniteSets, TLC

VARIABLES
    \* ---- virtual offset arithmetic (VOSpec) ----
    vo_block_start,   \* argument block_start_offset, a big number
    vo_within,        \* argument within_block_offset, an integer
    vo_made,          \* outcome of make_virtual_offset, or NotCalled
    vo_split,         \* outcome of split_virtual_offset, or NotCalled
    \* ---- BgzfWriter session (Spec) ----
    w_buffer,         \* self._buffer
    w_open,           \* the sink handle has not been closed
    sink,             \* the blocks written to self._handle, in order
    accepted,         \* all data passed to write so far
    last,             \* the last operation: its name, outcome and effect, and
                      \* the name and outcome of the one before (prev)
    nops,             \* operations called so far
    w_told,           \* outcome of tell() if it was the last call, or NotCalled
    \* ---- reading the produced file ----
    file,             \* the file a reader is given
    r_pos,            \* position of the reader's handle, in blocks
    r_state,          \* "idle", "iterating", "ended" or "failed"
    r_yielded,        \* what BgzfBlocks has yielded so far
    r_data,           \* the payloads _load_bgzf_block has returned, joined
    r_err,            \* the exception that ended the iteration, or "none"
    \* ---- a BgzfReader on the file (ReaderSpec) ----
    rd,               \* the attributes of the BgzfReader, or NoReader
    rd_pos,           \* position of the BgzfReader's handle, in blocks
    rd_last           \* the last call on the BgzfReader and its outcome

vo_vars == <<vo_block_start, vo_within, vo_made, vo_split>>
w_vars == <<w_buffer, w_open, sink, accepted, last, nops, w_told>>
r_vars == <<file, r_pos, r_state, r_yielded, r_data, r_err>>
rd_vars == <<rd, rd_pos, rd_last>>
vars == <<vo_vars, w_vars, r_vars, rd_vars>>

-----------------------------------------------------------------------------
(* Numbers *)

\* 2**16: the size of a limb, and the bound on within_block_offset.
Radix == 65536

RECURSIVE Pow2(_)
Pow2(n) == IF n = 0 THEN 1 ELSE 2 * Pow2(n - 1)

\* Bitwise operations of Python on non-negative integers below 2**n.
RECURSIVE BitXor(_, _, _)
BitXor(a, b, n) ==
    IF n = 0 THEN 0
    ELSE (((a % 2) + (b % 2)) % 2) + 2 * BitXor(a \div 2, b \div 2, n - 1)

RECURSIVE BitOr(_, _, _)
BitOr(a, b, n) ==
    IF n = 0 THEN 0
    ELSE (IF a % 2 = 1 \/ b % 2 = 1 THEN 1 ELSE 0)
         + 2 * BitOr(a \div 2, b \div 2, n - 1)

RECURSIVE BitAnd(_, _, _)
BitAnd(a, b, n) ==
    IF n = 0 THEN 0
    ELSE (IF a % 2 = 1 /\ b % 2 = 1 THEN 1 ELSE 0)
         + 2 * BitAnd(a \div 2, b \div 2, n - 1)

\* Magnitudes: little-endian limb sequences without leading zero limbs.
RECURSIVE Norm(_)
Norm(m) ==
    IF m = <<>> THEN <<>>
    ELSE IF m[Len(m)] = 0 THEN Norm(SubSeq(m, 1, Len(m) - 1))
    ELSE m

Limb(m, i) == IF i <= Len(m) THEN m[i] ELSE 0

MaxLen(a, b) == IF Len(a) >= Len(b) THEN Len(a) ELSE Len(b)

\* a < b on magnitudes: decided by the most significant differing limb.
RECURSIVE MagLessFrom(_, _, _)
MagLessFrom(a, b, i) ==
    IF i = 0 THEN FALSE
    ELSE IF Limb(a, i) # Limb(b, i) THEN Limb(a, i) < Limb(b, i)
    ELSE MagLessFrom(a, b, i - 1)

MagLess(a, b) == MagLessFrom(a, b, MaxLen(a, b))

\* 2**k as a magnitude.
MagPow2(k) == [i \in 1..(k \div 16) |-> 0] \o <<Pow2(k % 16)>>

\* x << 16 and x >> 16 on magnitudes.
MagShiftLeft16(m) == IF m = <<>> THEN <<>> ELSE <<0>> \o m

MagShiftRight16(m) == IF m = <<>> THEN <<>> ELSE Tail(m)

MagXor(a, b) == Norm([i \in 1..MaxLen(a, b) |-> BitXor(Limb(a, i), Limb(b, i), 16)])

MagOr(a, b) == Norm([i \in 1..MaxLen(a, b) |-> BitOr(Limb(a, i), Limb(b, i), 16)])

MagAnd(a, b) == Norm([i \in 1..MaxLen(a, b) |-> BitAnd(Limb(a, i), Limb(b, i), 16)])

\* a - b on magnitudes, for a >= b: limb by limb with a borrow.
RECURSIVE MagSubFrom(_, _, _, _)
MagSubFrom(a, b, i, borrow) ==
    IF i > MaxLen(a, b) THEN <<>>
    ELSE LET d == Limb(a, i) - Limb(b, i) - borrow
         IN  IF d < 0
             THEN <<d + Radix>> \o MagSubFrom(a, b, i + 1, 1)
             ELSE <<d>> \o MagSubFrom(a, b, i + 1, 0)

MagSub(a, b) == Norm(MagSubFrom(a, b, 1, 0))

\* A non-negative machine integer as a magnitude.
RECURSIVE MagOfInt(_)
MagOfInt(n) == IF n = 0 THEN <<>> ELSE <<n % Radix>> \o MagOfInt(n \div Radix)

Big(neg, mag) == [neg |-> neg, mag |-> mag]

BigOfInt(n) == IF n < 0 THEN Big(TRUE, MagOfInt(0 - n)) ELSE Big(FALSE, MagOfInt(n))

-----------------------------------------------------------------------------
(* Virtual offsets *)

NotCalled == [kind |-> "none"]

Returned(v) == [kind |-> "ok", value |-> v]

Raised(e) == [kind |-> "raise", error |-> e]

\* The exponent in the test of block_start_offset.
BlockStartBits == 28

\* The exponent the error message and the doctest of make_virtual_offset name.
DocBlockStartBits == 48

make_virtual_offset(block_start_offset, within_block_offset) ==
    IF within_block_offset < 0 \/ within_block_offset >= Radix
    THEN Raised("ValueError")
    ELSE IF block_start_offset.neg
            \/ ~MagLess(block_start_offset.mag, MagPow2(BlockStartBits))
    THEN Raised("ValueError")
    ELSE Returned(Big(FALSE, MagOr(MagShiftLeft16(block_start_offset.mag),
                                   MagOfInt(within_block_offset))))

\* A variant that masks with the shifted start instead of xor-ing with it.
split_virtual_offset_And(virtual_offset) ==
    LET start == MagShiftRight16(virtual_offset.mag)
    IN  <<Big(FALSE, start),
          Big(FALSE, MagAnd(virtual_offset.mag, MagShiftLeft16(start)))>>

\* virtual_offset is non-negative.
split_virtual_offset(virtual_offset) ==
    LET start == MagShiftRight16(virtual_offset.mag)
    IN  <<Big(FALSE, start),
          Big(FALSE, MagXor(virtual_offset.mag, MagShiftLeft16(start)))>>

\* The arguments tried: the boundary values of both ranges.
BlockStarts ==
    { BigOfInt(-1), BigOfInt(0), BigOfInt(1), BigOfInt(100000),
      Big(FALSE, MagSub(MagPow2(BlockStartBits), <<1>>)),
      Big(FALSE, MagPow2(BlockStartBits)),
      Big(FALSE, MagSub(MagPow2(DocBlockStartBits), <<1>>)),
      Big(FALSE, MagPow2(DocBlockStartBits)) }

Withins == { -1, 0, 1, 10, Radix - 1, Radix }

\* Limbs of the virtual offsets split directly, and how many limbs at most
\* (4 limbs: 64 bits).
SplitLimbs == { 0, 1, 21845, Radix - 1 }

SplitWidth == 4

SplitInputs ==
    { Big(FALSE, Norm(m)) : m \in UNION { [1..n -> SplitLimbs] : n \in 0..SplitWidth } }

VOInit ==
    /\ vo_block_start \in BlockStarts
    /\ vo_within \in Withins
    /\ vo_made = NotCalled
    /\ vo_split = NotCalled

\* make_virtual_offset(vo_block_start, vo_within)
CallMake ==
    /\ vo_made = NotCalled
    /\ vo_made' = make_virtual_offset(vo_block_start, vo_within)
    /\ UNCHANGED <<vo_block_start, vo_within, vo_split, w_vars, r_vars, rd_vars>>

\* split_virtual_offset(make_virtual_offset(...)), when the latter returned
CallSplitMade ==
    /\ vo_made.kind = "ok"
    /\ vo_split = NotCalled
    /\ vo_split' = [kind |-> "ok", arg |-> vo_made.value, made |-> TRUE,
                    value |-> split_virtual_offset(vo_made.value)]
    /\ UNCHANGED <<vo_block_start, vo_within, vo_made, w_vars, r_vars, rd_vars>>

\* split_virtual_offset(v) for a virtual offset v from elsewhere (an index)
CallSplit ==
    /\ vo_made = NotCalled
    /\ vo_split = NotCalled
    /\ \E v \in SplitInputs :
          vo_split' = [kind |-> "ok", arg |-> v, made |-> FALSE,
                       value |-> split_virtual_offset(v)]
    /\ UNCHANGED <<vo_block_start, vo_within, vo_made, w_vars, r_vars, rd_vars>>

-----------------------------------------------------------------------------
(* Byte strings, run-length encoded *)

Rep(c, n) == IF n = 0 THEN <<>> ELSE << <<c, n>> >>

RECURSIVE BLen(_)
BLen(s) == IF s = <<>> THEN 0 ELSE s[1][2] + BLen(Tail(s))

\* a + b
BCat(a, b) ==
    IF a = <<>> THEN b
    ELSE IF b = <<>> THEN a
    ELSE IF a[Len(a)][1] = b[1][1]
    THEN SubSeq(a, 1, Len(a) - 1) \o << <<b[1][1], a[Len(a)][2] + b[1][2]>> >> \o Tail(b)
    ELSE a \o b

\* s[:n]
RECURSIVE BTake(_, _)
BTake(s, n) ==
    IF n <= 0 \/ s = <<>> THEN <<>>
    ELSE IF s[1][2] <= n THEN <<s[1]>> \o BTake(Tail(s), n - s[1][2])
    ELSE << <<s[1][1], n>> >>

\* s[n:]
RECURSIVE BDrop(_, _)
BDrop(s, n) ==
    IF n <= 0 \/ s = <<>> THEN s
    ELSE IF s[1][2] <= n THEN BDrop(Tail(s), n - s[1][2])
    ELSE << <<s[1][1], s[1][2] - n>> >> \o Tail(s)

RECURSIVE BCatAll(_)
BCatAll(ss) == IF ss = <<>> THEN <<>> ELSE BCat(ss[1], BCatAll(Tail(ss)))

-----------------------------------------------------------------------------
(* struct and zlib *)

\* struct.pack("<H", n): two bytes, or struct.error when n does not fit.
PackH(n) ==
    IF n < 0 \/ n > 65535 THEN Raised("struct.error")
    ELSE Returned(<<n % 256, n \div 256>>)

\* struct.unpack("<H", b)[0]
UnpackH(b) == b[1] + 256 * b[2]

\* struct.pack("<I", n) for 0 <= n < 2**31.
PackI(n) == <<n % 256, (n \div 256) % 256, (n \div 65536) % 256, n \div 16777216>>

\* struct.unpack("<I", b)[0]; -1 stands for a value of 2**31 or more.
UnpackI(b) ==
    IF b[4] >= 128 THEN -1
    ELSE b[1] + 256 * b[2] + 65536 * b[3] + 16777216 * b[4]

\* struct.pack("<i", c) for -2**31 <= c < 0: two's complement, byte by byte.
PackSignedNeg(c) ==
    LET m == (0 - c) - 1
    IN  <<255 - (m % 256), 255 - ((m \div 256) % 256),
          255 - ((m \div 65536) % 256), 255 - (m \div 16777216)>>

\* struct.pack("<I", c & 0xffffffff) for a signed 32 bit c: c modulo 2**32 has
\* the low limb c mod 2**16 and the high limb floor(c / 2**16) mod 2**16.
PackMasked(c) ==
    LET lo == c % Radix
        hi == (c \div Radix) % Radix
    IN  <<lo % 256, lo \div 256, hi % 256, hi \div 256>>

\* zlib.crc32 is library code; it stands here as a checksum of 32 signed bits
\* that depends on every byte, on the run lengths and on their order.
RECURSIVE CrcFold(_, _)
CrcFold(h, s) ==
    IF s = <<>> THEN h
    ELSE CrcFold((h * 131 + s[1][1] * 257 + (s[1][2] % 65521) + 1) % 65521, Tail(s))

crc32(s) == LET h == CrcFold(1, s) IN (h - 32760) * 32768 + h

\* The most bytes raw deflate can return for n bytes of input (stored blocks).
DeflateBound(n) == n + ((n \div 16383) + 1) * 5

\* The least output for a non-empty input.
MinDeflate == 3

\* The deflate stream of the empty input: "\x03\x00".
EmptyDeflate == 2

BlockSize == 65536

\* 12 bytes of gzip header, 6 of BC subfield, 8 of trailer, minus one.
BsizeExtra == 25

\* The lengths the compressor may return for a payload: it is deterministic
\* library code whose output length is not known here, so every length at a
\* boundary of the checks of _write_block is tried, within deflate's bound.
DeflateLens(block) ==
    IF block = <<>> THEN {EmptyDeflate}
    ELSE { c \in { MinDeflate,
                   (BlockSize - 1) - BsizeExtra,
                   BlockSize - BsizeExtra,
                   BlockSize - 1,
                   BlockSize } : c <= DeflateBound(BLen(block)) }

\* c.compress(block) + c.flush(): a stream of clen bytes that inflates to block.
Compress(block, clen) == [clen |-> clen, plain |-> block]

-----------------------------------------------------------------------------
(* BgzfWriter *)

Magic == <<31, 139, 8, 4>>

BC == <<66, 67>>

\* Bytes a block takes in the file: 12 of header, the extra subfields, the
\* deflate stream, 8 of trailer.
RECURSIVE SubfieldsSize(_)
SubfieldsSize(subs) ==
    IF subs = <<>> THEN 0 ELSE 4 + Len(subs[1].data) + SubfieldsSize(Tail(subs))

FramedSize(b) == 12 + SubfieldsSize(b.subfields) + b.deflate.clen + 8

\* A block of a large file may stand for itself and for the blocks that
\* follow it up to the next block the model spells out: their bytes, together.
Following(b) == IF "following" \in DOMAIN b THEN b.following ELSE 0

RECURSIVE FileSize(_)
FileSize(f) ==
    IF f = <<>> THEN 0 ELSE FramedSize(f[1]) + Following(f[1]) + FileSize(Tail(f))

\* A variant without the test of the compressed length, on a build whose
\* struct.pack masks a value that does not fit.
write_block_Unchecked(block, clen, is_open, accepts) ==
    Returned([magic |-> Magic, mtime |-> <<0, 0, 0, 0>>, xfl |-> 0, os |-> 255,
              xlen |-> <<6, 0>>,
              subfields |-> << [id |-> BC, len |-> <<2, 0>>,
                                data |-> PackH((clen + BsizeExtra) % Radix).value] >>,
              deflate |-> Compress(block, clen),
              crc |-> PackMasked(crc32(block)),
              isize |-> PackI(BLen(block))])

\* A variant that stores the length of the block itself in BC.
write_block_BsizeIsLength(block, clen, is_open, accepts) ==
    IF ~is_open THEN Raised("ValueError")
    ELSE IF BLen(block) > BlockSize THEN Raised("AssertionError")
    ELSE IF ~(clen < BlockSize) THEN Raised("AssertionError")
    ELSE IF PackH(clen + BsizeExtra + 1).kind = "raise" THEN PackH(clen + BsizeExtra + 1)
    ELSE IF ~accepts THEN Raised("IOError")
    ELSE Returned([magic |-> Magic, mtime |-> <<0, 0, 0, 0>>, xfl |-> 0, os |-> 255,
              xlen |-> <<6, 0>>,
              subfields |-> << [id |-> BC, len |-> <<2, 0>>,
                                data |-> PackH(clen + BsizeExtra + 1).value] >>,
              deflate |-> Compress(block, clen),
              crc |-> PackMasked(crc32(block)),
              isize |-> PackI(BLen(block))])

\* _write_block(block), the compressor returning clen bytes: the block
\* written to the handle, or the exception raised before anything is written.
\* handle.tell() fails on a closed handle; handle.write(data) raises IOError
\* and writes nothing when the sink does not accept the data.
write_block(block, clen, is_open, accepts) ==
    IF ~is_open THEN Raised("ValueError")
    ELSE IF BLen(block) > BlockSize THEN Raised("AssertionError")
    ELSE IF ~(clen < BlockSize) THEN Raised("AssertionError")
    ELSE IF PackH(clen + BsizeExtra).kind = "raise" THEN PackH(clen + BsizeExtra)
    ELSE IF ~accepts THEN Raised("IOError")
    ELSE Returned([magic |-> Magic, mtime |-> <<0, 0, 0, 0>>, xfl |-> 0, os |-> 255,
              xlen |-> <<6, 0>>,
              subfields |-> << [id |-> BC, len |-> <<2, 0>>,
                                data |-> PackH(clen + BsizeExtra).value] >>,
              deflate |-> Compress(block, clen),
              crc |-> PackMasked(crc32(block)),
              isize |-> PackI(BLen(block))])

\* The state a writer operation ends in: the buffer, the blocks written, the
\* exception raised ("none" when it returned) and the lengths of the payloads
\* it passed to _write_block, in the order of the calls.
Outcome(buf, out, err, calls) ==
    [buffer |-> buf, out |-> out, err |-> err, calls |-> calls]

\* while len(self._buffer) >= 65536:
\*     self._write_block(self._buffer[:chunk]); self._buffer = self._buffer[chunk:]
\* Every outcome, over the lengths the compressor may return and over the
\* sink accepting the block or not.
RECURSIVE DrainLoop(_, _, _, _, _)
DrainLoop(buf, out, calls, chunk, is_open) ==
    IF BLen(buf) >= BlockSize
    THEN UNION { LET r == write_block(BTake(buf, chunk), c, is_open, a)
                     passed == Append(calls, BLen(BTake(buf, chunk)))
                 IN  IF r.kind = "raise"
                     THEN {Outcome(buf, out, r.error, passed)}
                     ELSE DrainLoop(BDrop(buf, chunk), Append(out, r.value), passed,
                                    chunk, is_open)
                 : c \in DeflateLens(BTake(buf, chunk)), a \in BOOLEAN }
    ELSE {Outcome(buf, out, "none", calls)}

\* The chunk length in the loop of write, and in the loop of flush.
WriteChunk == 65536

FlushChunk == 65535

\* A variant of write that appends the data only on the buffering path.
BgzfWriter_write_Lossy(buf, data, is_open) ==
    IF BLen(buf) + BLen(data) < BlockSize
    THEN {Outcome(BCat(buf, data), <<>>, "none", <<>>)}
    ELSE DrainLoop(data, <<>>, <<>>, WriteChunk, is_open)

\* A variant of write that compares with <= and so buffers a full block.
BgzfWriter_write_Late(buf, data, is_open) ==
    IF BLen(buf) + BLen(data) <= BlockSize
    THEN {Outcome(BCat(buf, data), <<>>, "none", <<>>)}
    ELSE DrainLoop(BCat(buf, data), <<>>, <<>>, WriteChunk, is_open)

\* A variant of write that puts the old buffer back when a block fails.
BgzfWriter_write_DropOnError(buf, data, is_open) ==
    IF BLen(buf) + BLen(data) < BlockSize
    THEN {Outcome(BCat(buf, data), <<>>, "none", <<>>)}
    ELSE { IF o.err = "none" THEN o ELSE Outcome(buf, o.out, o.err, o.calls)
           : o \in DrainLoop(BCat(buf, data), <<>>, <<>>, WriteChunk, is_open) }

\* BgzfWriter.write(data)
BgzfWriter_write(buf, data, is_open) ==
    IF BLen(buf) + BLen(data) < BlockSize
    THEN {Outcome(BCat(buf, data), <<>>, "none", <<>>)}
    ELSE DrainLoop(BCat(buf, data), <<>>, <<>>, WriteChunk, is_open)

\* A variant of flush that writes nothing when the buffer is empty.
BgzfWriter_flush_Lazy(buf, is_open) ==
    IF buf = <<>> THEN {Outcome(<<>>, <<>>, "none", <<>>)}
    ELSE UNION { IF o.err # "none" THEN {o}
            ELSE { LET r == write_block(o.buffer, c, is_open, a)
                       passed == Append(o.calls, BLen(o.buffer))
                   IN  IF r.kind = "raise"
                       THEN Outcome(o.buffer, o.out, r.error, passed)
                       ELSE Outcome(<<>>, Append(o.out, r.value), "none", passed)
                   : c \in DeflateLens(o.buffer), a \in BOOLEAN }
            : o \in DrainLoop(buf, <<>>, <<>>, FlushChunk, is_open) }

\* A variant of flush that leaves the last block in the buffer.
BgzfWriter_flush_NoReset(buf, is_open) ==
    UNION { IF o.err # "none" THEN {o}
            ELSE { LET r == write_block(o.buffer, c, is_open, a)
                       passed == Append(o.calls, BLen(o.buffer))
                   IN  IF r.kind = "raise"
                       THEN Outcome(o.buffer, o.out, r.error, passed)
                       ELSE Outcome(o.buffer, Append(o.out, r.value), "none", passed)
                   : c \in DeflateLens(o.buffer), a \in BOOLEAN }
            : o \in DrainLoop(buf, <<>>, <<>>, FlushChunk, is_open) }

\* A variant of flush without the loop: the whole buffer goes into one block.
BgzfWriter_flush_OneBlock(buf, is_open) ==
    { LET r == write_block(buf, c, is_open, a)
      IN  IF r.kind = "raise"
          THEN Outcome(buf, <<>>, r.error, <<BLen(buf)>>)
          ELSE Outcome(<<>>, <<r.value>>, "none", <<BLen(buf)>>)
      : c \in DeflateLens(buf), a \in BOOLEAN }

\* BgzfWriter.flush(); handle.flush() moves no data in this model.
BgzfWriter_flush(buf, is_open) ==
    UNION { IF o.err # "none" THEN {o}
            ELSE { LET r == write_block(o.buffer, c, is_open, a)
                       passed == Append(o.calls, BLen(o.buffer))
                   IN  IF r.kind = "raise"
                       THEN Outcome(o.buffer, o.out, r.error, passed)
                       ELSE Outcome(<<>>, Append(o.out, r.value), "none", passed)
                   : c \in DeflateLens(o.buffer), a \in BOOLEAN }
            : o \in DrainLoop(buf, <<>>, <<>>, FlushChunk, is_open) }

\* A variant of close that always flushes.
BgzfWriter_close_Always(buf, is_open) == BgzfWriter_flush(buf, is_open)

\* BgzfWriter.close(), up to the call of handle.close()
BgzfWriter_close(buf, is_open) ==
    IF buf # <<>> THEN BgzfWriter_flush(buf, is_open)
    ELSE {Outcome(buf, <<>>, "none", <<>>)}

-----------------------------------------------------------------------------
(* _load_bgzf_block and BgzfBlocks *)

\* A file is the sequence of the blocks written to it; a handle stands at
\* the start of block number pos, or at the end of the file (pos = Len + 1).
Offset(f, pos) == FileSize(SubSeq(f, 1, pos - 1))

NoBlockSize == -1

\* The loop over the extra subfields: x_len and block_size after it, or the
\* assertion that failed in it.  Subfields that end before extra_len is used
\* up make the loop read on into the bytes after them ("misparse").
RECURSIVE WalkSubfields(_, _, _, _, _)
WalkSubfields(subs, i, x_len, block_size, extra_len) ==
    IF ~(x_len < extra_len) THEN Returned(<<x_len, block_size>>)
    ELSE IF i > Len(subs) THEN Raised("misparse")
    ELSE LET subfield_len == UnpackH(subs[i].len)
         IN  IF subfield_len # Len(subs[i].data) THEN Raised("misparse")
             ELSE IF subs[i].id = BC /\ subfield_len # 2 THEN Raised("AssertionError")
             ELSE IF subs[i].id = BC /\ block_size # NoBlockSize THEN Raised("AssertionError")
             ELSE WalkSubfields(subs, i + 1, x_len + subfield_len + 4,
                                IF subs[i].id = BC THEN UnpackH(subs[i].data) + 1
                                                   ELSE block_size,
                                extra_len)

\* The CRC of the data as the reader packs it.
ReaderCrc(data) ==
    IF crc32(data) < 0 THEN PackSignedNeg(crc32(data)) ELSE PackI(crc32(data))

\* The header and trailer bytes that are not part of the extra field, plus one.
FixedBytes == 19

\* A variant of the decoder without the two checks of the trailer.
load_bgzf_block_Unverified(f, pos) ==
    IF pos > Len(f) THEN Raised("StopIteration")
    ELSE Returned(<<BigOfInt(Offset(f, pos)),
                    UnpackH(f[pos].subfields[1].data) + 1, f[pos].deflate.plain>>)

\* A variant of the decoder that ends at a block without data.
load_bgzf_block_StopAtEmpty(f, pos) ==
    IF pos > Len(f) \/ f[pos].deflate.plain = <<>> THEN Raised("StopIteration")
    ELSE Returned(<<BigOfInt(Offset(f, pos)),
                    UnpackH(f[pos].subfields[1].data) + 1, f[pos].deflate.plain>>)

\* A variant of the decoder that takes a short read of the magic for the end
\* of the file.
load_bgzf_block_ShortIsEnd(f, pos) ==
    IF pos > Len(f) THEN Raised("StopIteration")
    ELSE IF Len(f[pos].magic) < 4 THEN Raised("StopIteration")
    ELSE IF f[pos].magic # Magic THEN Raised("ValueError")
    ELSE
      LET b == f[pos]
          extra_len == UnpackH(b.xlen)
          w == WalkSubfields(b.subfields, 1, 0, NoBlockSize, extra_len)
      IN  IF w.kind = "raise" THEN w
          ELSE IF w.value[1] # extra_len THEN Raised("AssertionError")
          ELSE IF w.value[2] = NoBlockSize THEN Raised("AssertionError")
          ELSE Returned(<<BigOfInt(Offset(f, pos)), w.value[2], b.deflate.plain>>)

\* A variant of the decoder without the test of x_len after the loop.
load_bgzf_block_Overrun(f, pos) ==
    IF pos > Len(f) THEN Raised("StopIteration")
    ELSE IF f[pos].magic # Magic THEN Raised("ValueError")
    ELSE
      LET b == f[pos]
          extra_len == UnpackH(b.xlen)
          w == WalkSubfields(b.subfields, 1, 0, NoBlockSize, extra_len)
      IN  IF w.kind = "raise" THEN w
          ELSE IF w.value[2] = NoBlockSize THEN Raised("AssertionError")
          ELSE Returned(<<BigOfInt(Offset(f, pos)), w.value[2], b.deflate.plain>>)

\* _load_bgzf_block(handle) with the handle at block pos of file f: the
\* triple returned, or the exception raised.  handle.read(deflate_size) with
\* a negative size reads up to the end of the file, so that the read of the
\* CRC returns no byte and the unpacking of the length raises struct.error;
\* a deflate_size that is not the length of the deflate stream makes the
\* trailer be read from other bytes ("misparse").
load_bgzf_block(f, pos) ==
    IF pos > Len(f) THEN Raised("StopIteration")
    ELSE IF f[pos].magic # Magic THEN Raised("ValueError")
    ELSE
      LET b == f[pos]
          extra_len == UnpackH(b.xlen)
          w == WalkSubfields(b.subfields, 1, 0, NoBlockSize, extra_len)
      IN  IF w.kind = "raise" THEN w
          ELSE IF w.value[1] # extra_len THEN Raised("AssertionError")
          ELSE IF w.value[2] = NoBlockSize THEN Raised("AssertionError")
          ELSE
            LET block_size == w.value[2]
                deflate_size == block_size - 1 - extra_len - FixedBytes
            IN  IF deflate_size < 0 THEN Raised("struct.error")
                ELSE IF deflate_size # b.deflate.clen THEN Raised("misparse")
                ELSE
                  LET data == b.deflate.plain
                  IN  IF UnpackI(b.isize) # BLen(data) THEN Raised("AssertionError")
                      ELSE IF b.crc # ReaderCrc(data) THEN Raised("AssertionError")
                      ELSE Returned(<<BigOfInt(Offset(f, pos)), block_size, data>>)

-----------------------------------------------------------------------------
(* The session: a writer, then a reader of the file it produced *)

\* Operations called on one writer.
MaxOps == 4

\* The length of a short write.
ShortLen == 3

\* The data passed to write: runs of one byte, of lengths around the block size.
DataLens == { 0, ShortLen, BlockSize }

\* The k-th operation writes the byte "a" or "b", by turns.
WriteData(k) == { Rep(97 + (k % 2), n) : n \in DataLens }

VOIdle ==
    /\ vo_block_start = BigOfInt(0)
    /\ vo_within = 0
    /\ vo_made = NotCalled
    /\ vo_split = NotCalled

WriterInit ==
    /\ w_buffer = <<>>
    /\ w_open = TRUE
    /\ sink = <<>>
    /\ accepted = <<>>
    /\ last = [op |-> "init", err |-> "none", pre |-> <<>>, data |-> <<>>, nsink |-> 0,
               calls |-> <<>>,
               prev |-> [op |-> "init", err |-> "none", idle |-> TRUE]]
    /\ nops = 0
    /\ w_told = NotCalled

ReaderInit ==
    /\ file = <<>>
    /\ r_pos = 1
    /\ r_state = "idle"
    /\ r_yielded = <<>>
    /\ r_data = <<>>
    /\ r_err = "none"

\* No BgzfReader has been constructed.
NoReader == [kind |-> "none"]

RdIdle ==
    /\ rd = NoReader
    /\ rd_pos = 1
    /\ rd_last = [op |-> "none", sofar |-> 0]

Init == VOIdle /\ WriterInit /\ ReaderInit /\ RdIdle

Done(op, data, o) ==
    /\ w_buffer' = o.buffer
    /\ sink' = sink \o o.out
    /\ last' = [op |-> op, err |-> o.err, pre |-> w_buffer, data |-> data,
                nsink |-> Len(sink), calls |-> o.calls,
                prev |-> [op |-> last.op, err |-> last.err, idle |-> last.pre = <<>>]]
    /\ nops' = nops + 1
    /\ w_told' = NotCalled

\* w.write(data)
Write ==
    /\ nops < MaxOps
    /\ r_state = "idle"
    /\ \E data \in WriteData(nops) :
         /\ accepted' = BCat(accepted, data)
         /\ \E o \in BgzfWriter_write(w_buffer, data, w_open) : Done("write", data, o)
    /\ UNCHANGED <<w_open, vo_vars, r_vars, rd_vars>>

\* w.flush()
Flush ==
    /\ nops < MaxOps
    /\ r_state = "idle"
    /\ \E o \in BgzfWriter_flush(w_buffer, w_open) : Done("flush", <<>>, o)
    /\ UNCHANGED <<accepted, w_open, vo_vars, r_vars, rd_vars>>

\* w.close(): handle.close() is reached when the flush, if any, returned
Close ==
    /\ nops < MaxOps
    /\ r_state = "idle"
    /\ \E o \in BgzfWriter_close(w_buffer, w_open) :
         /\ Done("close", <<>>, o)
         /\ w_open' = IF o.err = "none" THEN FALSE ELSE w_open
    /\ UNCHANGED <<accepted, vo_vars, r_vars, rd_vars>>

\* The attributes BgzfWriter.__init__ sets.
BgzfWriterAttrs == { "_handle", "_buffer", "compresslevel" }

\* BgzfWriter.tell(), the handle at the end of file f.  Reading an attribute
\* the object does not have raises AttributeError; tell() of a closed handle
\* raises ValueError.
BgzfWriter_tell(buf, f, is_open) ==
    IF "handle" \notin BgzfWriterAttrs THEN Raised("AttributeError")
    ELSE IF ~is_open THEN Raised("ValueError")
    ELSE make_virtual_offset(BigOfInt(FileSize(f)), BLen(buf))

\* w.tell()
Tell ==
    /\ r_state = "idle"
    /\ w_told = NotCalled
    /\ w_told' = BgzfWriter_tell(w_buffer, sink, w_open)
    /\ UNCHANGED <<w_buffer, w_open, sink, accepted, last, nops, vo_vars, r_vars, rd_vars>>

\* The file is opened for reading once a close has returned.
Closed == last.op = "close" /\ last.err = "none"

OpenFile ==
    /\ Closed
    /\ r_state = "idle"
    /\ file' = sink
    /\ r_state' = "iterating"
    /\ UNCHANGED <<r_pos, r_yielded, r_data, r_err, vo_vars, w_vars, rd_vars>>

\* The damage is to one of the first MaxDamaged blocks.
MaxDamaged == 2

\* One byte of the trailer of block i, with one bit changed.
Damaged(f, i, field, k) ==
    [f EXCEPT ![i] = [@ EXCEPT ![field] = [@ EXCEPT ![k] = BitXor(@, 1, 8)]]]

\* The file reaches the reader with the trailer of one block changed.
OpenDamagedFile ==
    /\ Closed
    /\ r_state = "idle"
    /\ \E i \in 1..Len(sink), field \in {"crc", "isize"}, k \in {1, 4} :
          /\ i <= MaxDamaged
          /\ file' = Damaged(sink, i, field, k)
    /\ r_state' = "iterating"
    /\ UNCHANGED <<r_pos, r_yielded, r_data, r_err, vo_vars, w_vars, rd_vars>>

\* A variant of the loop of BgzfBlocks that does not get past a block
\* without data.
BlocksNext_Stalls ==
    /\ r_state = "iterating"
    /\ LET r == load_bgzf_block(file, r_pos)
       IN  IF r.kind = "ok" /\ r.value[3] = <<>>
           THEN UNCHANGED <<r_yielded, r_data, r_pos, r_state, r_err>>
           ELSE IF r.kind = "ok"
           THEN /\ r_yielded' = Append(r_yielded, <<r.value[1], r.value[2], BLen(r.value[3])>>)
                /\ r_data' = BCat(r_data, r.value[3])
                /\ r_pos' = r_pos + 1
                /\ UNCHANGED <<r_state, r_err>>
           ELSE /\ r_state' = IF r.error = "StopIteration" THEN "ended" ELSE "failed"
                /\ r_err' = r.error
                /\ UNCHANGED <<r_yielded, r_data, r_pos>>
    /\ UNCHANGED <<file, vo_vars, w_vars, rd_vars>>

\* One round of the loop of BgzfBlocks: a StopIteration from
\* _load_bgzf_block ends the generator, any other exception leaves it.
BlocksNext ==
    /\ r_state = "iterating"
    /\ LET r == load_bgzf_block(file, r_pos)
       IN  IF r.kind = "ok"
           THEN /\ r_yielded' = Append(r_yielded, <<r.value[1], r.value[2], BLen(r.value[3])>>)
                /\ r_data' = BCat(r_data, r.value[3])
                /\ r_pos' = r_pos + 1
                /\ UNCHANGED <<r_state, r_err>>
           ELSE /\ r_state' = IF r.error = "StopIteration" THEN "ended" ELSE "failed"
                /\ r_err' = r.error
                /\ UNCHANGED <<r_yielded, r_data, r_pos>>
    /\ UNCHANGED <<file, vo_vars, w_vars, rd_vars>>

Next == Write \/ Flush \/ Close \/ OpenFile \/ OpenDamagedFile \/ BlocksNext

Spec == Init /\ [][Next]_vars

\* The writer on its own, with tell.
TellNext == Write \/ Flush \/ Close \/ Tell

TellSpec == Init /\ [][TellNext]_vars

\* The virtual offset functions on their own.
VOSpecInit == VOInit /\ WriterInit /\ ReaderInit /\ RdIdle

VONext == CallMake \/ CallSplitMade \/ CallSplit

VOSpec == VOSpecInit /\ [][VONext]_vars

\* The decoder on its own, on files with well and ill formed headers.

\* One extra subfield: two bytes of identifier, the length, the payload.
Subfield(id, data) == [id |-> id, len |-> PackH(Len(data)).value, data |-> data]

\* The BC subfield of block b under an extra field of extra_len bytes: the
\* length of the whole block, less one.
BCField(b, extra_len) == Subfield(BC, PackH(b.deflate.clen + extra_len + FixedBytes).value)

WithExtra(b, extra_len, subs) ==
    [b EXCEPT !.xlen = PackH(extra_len).value, !.subfields = subs]

\* An identifier other than "BC".
XX == <<88, 88>>

\* Block b under other extra fields: the subfields are those the loop of
\* _load_bgzf_block reads before x_len reaches extra_len.
Headers(b) ==
    { WithExtra(b, 6, << BCField(b, 6) >>),
      WithExtra(b, 12, << Subfield(XX, <<1, 2>>), BCField(b, 12) >>),
      WithExtra(b, 12, << BCField(b, 12), Subfield(XX, <<1, 2>>) >>),
      WithExtra(b, 10, << Subfield(XX, <<>>), BCField(b, 10) >>),
      WithExtra(b, 6, << Subfield(XX, <<1, 2>>) >>),
      WithExtra(b, 0, <<>>),
      WithExtra(b, 12, << BCField(b, 12), BCField(b, 12) >>),
      WithExtra(b, 7, << Subfield(BC, <<1, 2, 3>>) >>),
      WithExtra(b, 4, << Subfield(BC, <<>>) >>),
      WithExtra(b, 5, << BCField(b, 5) >>),
      WithExtra(b, 7, << Subfield(XX, <<1, 2>>), BCField(b, 7) >>) }

\* Block b with other first four bytes.
Magics(b) == { [b EXCEPT !.magic = m] : m \in { <<31, 139, 8, 0>>, <<0, 0, 0, 0>> } }

\* The last bytes of a file that ends less than four bytes after a block.
Tails == { [magic |-> m] : m \in { <<31>>, <<31, 139, 8>>, <<0>> } }

\* The blocks _write_block writes for three bytes, and for none.
DataBlock == write_block(Rep(97, ShortLen), MinDeflate, TRUE, TRUE).value
EmptyBlock == write_block(<<>>, EmptyDeflate, TRUE, TRUE).value

DecodeFiles ==
    { <<>>, << DataBlock >>, << DataBlock, EmptyBlock >> }
    \cup { << v >> : v \in Headers(DataBlock) \cup Magics(DataBlock) \cup Tails }
    \cup { << DataBlock, v >> : v \in Headers(DataBlock) \cup Magics(DataBlock) \cup Tails }
    \cup { << DataBlock, v, EmptyBlock >> : v \in Headers(DataBlock) \cup Magics(DataBlock) }

DecodeInit ==
    /\ VOIdle /\ WriterInit /\ RdIdle
    /\ file \in DecodeFiles
    /\ r_pos = 1
    /\ r_state = "iterating"
    /\ r_yielded = <<>>
    /\ r_data = <<>>
    /\ r_err = "none"

DecodeNext == BlocksNext

DecodeSpec == DecodeInit /\ [][DecodeNext]_vars

\* The decoder on blocks whose BC subfield holds another value than the
\* length of the block less one.
WithBsize(b, v) == [b EXCEPT !.subfields = << Subfield(BC, PackH(v).value) >>]

\* The values of BC: the least, those around a deflate_size of 0, those
\* around the length of the block, and the greatest.
Bsizes(b) ==
    { 0, UnpackH(b.xlen) + FixedBytes - 1, UnpackH(b.xlen) + FixedBytes,
      FramedSize(b) - 2, FramedSize(b) - 1, FramedSize(b), Radix - 1 }

SizeFiles ==
    DecodeFiles
    \cup { << WithBsize(DataBlock, v) >> : v \in Bsizes(DataBlock) }
    \cup { << WithBsize(DataBlock, v), EmptyBlock >> : v \in Bsizes(DataBlock) }
    \cup { << DataBlock, WithBsize(EmptyBlock, v), DataBlock >> : v \in Bsizes(EmptyBlock) }

SizeInit ==
    /\ VOIdle /\ WriterInit /\ RdIdle
    /\ file \in SizeFiles
    /\ r_pos = 1
    /\ r_state = "iterating"
    /\ r_yielded = <<>>
    /\ r_data = <<>>
    /\ r_err = "none"

SizeNext == BlocksNext

SizeSpec == SizeInit /\ [][SizeNext]_vars

-----------------------------------------------------------------------------
(* BgzfReader *)

\* The handle is inside blocks the model does not spell out.
InStretch == 0

\* The position of the handle once the block at pos has been read.
After(f, pos) == IF Following(f[pos]) > 0 THEN InStretch ELSE pos + 1

\* handle.seek(offset), for the offset of a block start or of the end.
SeekPos(f, offset) ==
    CHOOSE p \in 1..(Len(f) + 1) : BigOfInt(Offset(f, p)) = offset

\* The default of the parameter start_offset.
None == [kind |-> "None"]

\* The state a reader call ends in: the object, the handle, and what the
\* call returned or raised.
RdOutcome(self, pos, out) == [self |-> self, pos |-> pos, out |-> out]

\* self._load_block(start_offset): "if start_offset:" is false for None and
\* for 0.  A handle inside blocks that are not spelled out is not followed
\* ("unmodelled").
BgzfReader_load_block(self, f, pos, start_offset) ==
    LET at == IF start_offset # None /\ start_offset # BigOfInt(0)
              THEN SeekPos(f, start_offset) ELSE pos
        r == IF at = InStretch THEN Raised("unmodelled") ELSE load_bgzf_block(f, at)
    IN  IF r.kind = "raise" THEN RdOutcome(self, at, r)
        ELSE RdOutcome([self EXCEPT !._block_start_offset = r.value[1],
                                    !._block_size = r.value[2],
                                    !._buffer = r.value[3],
                                    !._within_block_offset = 0],
                       After(f, at), Returned(None))

\* BgzfReader(fileobj=handle), the handle at the start of the file.  The
\* attributes _load_block assigns have no value before it; the object is
\* lost when _load_block raises.
BgzfReader_init(f) ==
    BgzfReader_load_block([_handle |-> "fileobj", _block_start_offset |-> None,
                           _block_size |-> None, _buffer |-> None,
                           _within_block_offset |-> None], f, 1, None)

\* BgzfReader.tell()
BgzfReader_tell(self) ==
    make_virtual_offset(self._block_start_offset, self._within_block_offset)

\* The methods class BgzfReader defines.
BgzfReaderMethods == { "__init__", "_load_block", "tell", "read" }

\* reader.seek(virtual_offset): the lookup of an attribute that neither the
\* object nor its class has raises AttributeError.
BgzfReader_seek(self, pos, virtual_offset) ==
    IF "seek" \notin BgzfReaderMethods \cup DOMAIN self
    THEN RdOutcome(self, pos, Raised("AttributeError"))
    ELSE RdOutcome(self, pos, Raised("unmodelled"))

\* BgzfReader.read(size).  Reading an attribute the object does not have
\* raises AttributeError.
RECURSIVE BgzfReader_read(_, _, _, _)
BgzfReader_read(self, f, pos, size) ==
    IF size < 0 THEN RdOutcome(self, pos, Raised("NotImplementedError"))
    ELSE IF size = 0 THEN RdOutcome(self, pos, Returned(<<>>))
    ELSE IF "_with_block_offset" \notin DOMAIN self
    THEN RdOutcome(self, pos, Raised("AttributeError"))
    ELSE IF self._with_block_offset + size < BLen(self._buffer)
    THEN RdOutcome([self EXCEPT !._with_block_offset = @ + size], pos,
                   Returned(BTake(BDrop(self._buffer, self._with_block_offset),
                                  size)))
    ELSE LET data == self._buffer
             l == BgzfReader_load_block(self, f, pos, None)
         IN  IF l.out.kind = "raise" THEN l
             ELSE LET rest == BgzfReader_read(l.self, f, l.pos, size - BLen(data))
                  IN  IF rest.out.kind = "raise" THEN rest
                      ELSE RdOutcome(rest.self, rest.pos,
                                     Returned(BCat(data, rest.out.value)))

\* Block b followed by n bytes of blocks that are not spelled out.
Stretch(b, n) ==
    [magic |-> b.magic, mtime |-> b.mtime, xfl |-> b.xfl, os |-> b.os,
     xlen |-> b.xlen, subfields |-> b.subfields, deflate |-> b.deflate,
     crc |-> b.crc, isize |-> b.isize, following |-> n]

\* The second block of the large file starts one byte below 2**28.
SecondStart == Pow2(BlockStartBits) - 1

\* The files given to a BgzfReader: none, one, two and three blocks, and a
\* file of more than 2**28 bytes of which the first and the last two blocks
\* are spelled out.
OtherBlock == write_block(Rep(98, ShortLen + 1), MinDeflate, TRUE, TRUE).value

ReaderFiles ==
    { <<>>, << DataBlock >>, << DataBlock, EmptyBlock >>,
      << DataBlock, OtherBlock, EmptyBlock >>,
      << Stretch(DataBlock, SecondStart - FramedSize(DataBlock)),
         OtherBlock, EmptyBlock >> }

\* The sizes passed to read.
ReadSizes == { -1, 0, 1, ShortLen, ShortLen + 1, 2 * ShortLen + 1 }

\* The cursors of the virtual offsets passed to seek.
SeekWithins == { 0, 1 }

\* The starts of the blocks of f that are spelled out.
Starts(f) == { BigOfInt(Offset(f, i)) : i \in 1..Len(f) }

ReaderSpecInit ==
    /\ VOIdle /\ WriterInit /\ RdIdle
    /\ file \in ReaderFiles
    /\ r_pos = 1
    /\ r_state = "idle"
    /\ r_yielded = <<>>
    /\ r_data = <<>>
    /\ r_err = "none"

\* The bytes read since the reader was opened are not known once a block
\* has been loaded by its offset.
Unknown == -1

RdDone(op, arg, o, sofar) ==
    /\ rd' = o.self
    /\ rd_pos' = o.pos
    /\ rd_last' = [op |-> op, arg |-> arg, out |-> o.out, pre |-> rd, sofar |-> sofar]

\* reader = BgzfReader(fileobj=handle); no object results when it raises
RdOpen ==
    /\ rd = NoReader
    /\ rd_last.op = "none"
    /\ LET o == BgzfReader_init(file)
       IN  IF o.out.kind = "raise"
           THEN RdDone("open", None, RdOutcome(NoReader, o.pos, o.out), 0)
           ELSE RdDone("open", None, o, 0)
    /\ UNCHANGED <<vo_vars, w_vars, r_vars>>

\* reader.read(size)
RdRead ==
    /\ rd # NoReader
    /\ \E size \in ReadSizes :
          LET o == BgzfReader_read(rd, file, rd_pos, size)
          IN  /\ o.out # Raised("unmodelled")
              /\ RdDone("read", size, o,
                        IF o.out.kind = "ok" /\ rd_last.sofar # Unknown
                        THEN rd_last.sofar + BLen(o.out.value) ELSE rd_last.sofar)
    /\ UNCHANGED <<vo_vars, w_vars, r_vars>>

\* reader.tell()
RdTell ==
    /\ rd # NoReader
    /\ RdDone("tell", None, RdOutcome(rd, rd_pos, BgzfReader_tell(rd)), rd_last.sofar)
    /\ UNCHANGED <<vo_vars, w_vars, r_vars>>

\* reader.seek(virtual_offset)
RdSeek ==
    /\ rd # NoReader
    /\ \E start \in Starts(file), w \in SeekWithins :
          LET v == Big(FALSE, MagOr(MagShiftLeft16(start.mag), MagOfInt(w)))
          IN  RdDone("seek", v, BgzfReader_seek(rd, rd_pos, v), rd_last.sofar)
    /\ UNCHANGED <<vo_vars, w_vars, r_vars>>

\* reader._load_block(start_offset), for the start of a block
RdLoadBlock ==
    /\ rd # NoReader
    /\ \E start \in Starts(file) :
          LET o == BgzfReader_load_block(rd, file, rd_pos, start)
          IN  /\ o.out # Raised("unmodelled")
              /\ RdDone("_load_block", start, o, Unknown)
    /\ UNCHANGED <<vo_vars, w_vars, r_vars>>

ReaderNext == RdOpen \/ RdRead \/ RdTell \/ RdSeek \/ RdLoadBlock

ReaderSpec == ReaderSpecInit /\ [][ReaderNext]_vars

-----------------------------------------------------------------------------
(* The loops, one round at a time *)

\* One level of BgzfReader.read(size): the call returns or raises at this
\* level (done), or it has taken the rest of the buffer, loaded the next
\* block and calls self.read(size - len(data)).
ReadLevel(self, f, pos, size) ==
    IF size < 0
    THEN [done |-> TRUE, self |-> self, pos |-> pos,
          out |-> Raised("NotImplementedError")]
    ELSE IF size = 0
    THEN [done |-> TRUE, self |-> self, pos |-> pos, out |-> Returned(<<>>)]
    ELSE IF "_with_block_offset" \notin DOMAIN self
    THEN [done |-> TRUE, self |-> self, pos |-> pos, out |-> Raised("AttributeError")]
    ELSE IF self._with_block_offset + size < BLen(self._buffer)
    THEN [done |-> TRUE, self |-> [self EXCEPT !._with_block_offset = @ + size],
          pos |-> pos,
          out |-> Returned(BTake(BDrop(self._buffer, self._with_block_offset), size))]
    ELSE LET data == self._buffer
             l == BgzfReader_load_block(self, f, pos, None)
         IN  IF l.out.kind = "raise"
             THEN [done |-> TRUE, self |-> l.self, pos |-> l.pos, out |-> l.out]
             ELSE [done |-> FALSE, self |-> l.self, pos |-> l.pos,
                   out |-> Returned(data)]

\* The files iterated and read: those of DecodeFiles, the files of
\* ReaderFiles all of whose blocks are spelled out, and files with blocks
\* without data before a block with data.
LiveFiles ==
    DecodeFiles
    \cup { f \in ReaderFiles : \A i \in 1..Len(f) : Following(f[i]) = 0 }
    \cup { << EmptyBlock, DataBlock >>, << EmptyBlock, EmptyBlock, DataBlock >> }

LiveInit ==
    /\ VOIdle /\ WriterInit /\ RdIdle
    /\ file \in LiveFiles
    /\ r_pos = 1
    /\ r_state = "iterating"
    /\ r_yielded = <<>>
    /\ r_data = <<>>
    /\ r_err = "none"

\* reader.read(size) is called: left is the size of the call now running,
\* got the data the levels above it hold.
RdCall ==
    /\ rd # NoReader
    /\ rd_last.op # "reading"
    /\ \E size \in ReadSizes :
          rd_last' = [op |-> "reading", arg |-> size, out |-> None, pre |-> rd,
                      sofar |-> rd_last.sofar, left |-> size, got |-> <<>>]
    /\ UNCHANGED <<rd, rd_pos, vo_vars, w_vars, r_vars>>

\* The call that is running goes through one level.
RdStep ==
    /\ rd_last.op = "reading"
    /\ LET l == ReadLevel(rd, file, rd_pos, rd_last.left)
       IN  /\ rd' = l.self
           /\ rd_pos' = l.pos
           /\ rd_last' =
                 IF ~l.done
                 THEN [rd_last EXCEPT !.left = @ - BLen(l.out.value),
                                      !.got = BCat(@, l.out.value)]
                 ELSE IF l.out.kind = "raise"
                 THEN [op |-> "read", arg |-> rd_last.arg, out |-> l.out,
                       pre |-> rd_last.pre, sofar |-> rd_last.sofar]
                 ELSE [op |-> "read", arg |-> rd_last.arg,
                       out |-> Returned(BCat(rd_last.got, l.out.value)),
                       pre |-> rd_last.pre,
                       sofar |-> rd_last.sofar + BLen(rd_last.got) + BLen(l.out.value)]
    /\ UNCHANGED <<vo_vars, w_vars, r_vars>>

LiveNext == BlocksNext \/ RdOpen \/ RdCall \/ RdStep

\* A generator that is being iterated and a call that has been entered keep
\* running; nothing makes the caller call read.
LiveSpec ==
    LiveInit /\ [][LiveNext]_vars /\ WF_vars(BlocksNext) /\ WF_vars(RdStep)

-----------------------------------------------------------------------------
(* Properties *)

\* Whether block i of file f decodes, and the payload it decodes to (a run
\* of no byte when it does not).
Decodes(f, i) == load_bgzf_block(f, i).kind = "ok"

Undecodable == << <<-1, -1>> >>

Payload(f, i) == IF Decodes(f, i) THEN load_bgzf_block(f, i).value[3] ELSE Undecodable

\* The payloads of the blocks the last operation wrote, in order.
EmittedPayloads == [i \in 1..(Len(sink) - last.nsink) |-> Payload(sink, last.nsink + i)]

EmittedDecode == \A i \in (last.nsink + 1)..Len(sink) : Decodes(sink, i)

\* C1: once a session ended by close has been read block by block to the end
\* of the file, the payloads returned, joined in order, are exactly the bytes
\* passed to write; and reading the file never fails.
C1_RoundTrip ==
    (r_state # "idle" /\ file = sink) =>
        /\ r_state # "failed"
        /\ (r_state = "ended" => r_data = accepted)

\* A session of more than one block, with data left for the last one, read to the end.
C1_Witness ==
    /\ r_state = "ended"
    /\ file = sink
    /\ Len(sink) >= 2
    /\ BLen(accepted) > BlockSize
    /\ r_data = accepted

InRange(block_start, within, bits) ==
    /\ 0 <= within /\ within < Radix
    /\ ~block_start.neg
    /\ MagLess(block_start.mag, MagPow2(bits))

\* C2: for 0 <= block_start < 2**48 and 0 <= within_block < 2**16,
\* make_virtual_offset returns and split_virtual_offset of what it returned
\* is the pair (block_start, within_block).
C2_Bijection ==
    (vo_made # NotCalled /\ InRange(vo_block_start, vo_within, DocBlockStartBits)) =>
        /\ vo_made.kind = "ok"
        /\ (vo_split # NotCalled /\ vo_split.made) =>
              vo_split.value = <<vo_block_start, BigOfInt(vo_within)>>

\* C3: make_virtual_offset raises exactly when within_block is outside
\* [0, 2**16) or block_start is outside [0, 2**48), and otherwise returns
\* block_start * 2**16 + within_block.
C3_RangeCheck ==
    vo_made # NotCalled =>
        /\ vo_made.kind = "raise" <=> ~InRange(vo_block_start, vo_within, DocBlockStartBits)
        /\ vo_made.kind = "ok" =>
              vo_made.value = Big(FALSE, Norm(<<vo_within>> \o vo_block_start.mag))

\* C4: for a non-negative v, split_virtual_offset(v) is (v >> 16, v & 0xFFFF):
\* the first component times 2**16 plus the second is v, the second is below
\* 2**16, and the second (computed with xor) is both v & 0xFFFF and
\* v - ((v >> 16) << 16).
C4_Split ==
    vo_split # NotCalled =>
        LET v == vo_split.arg.mag
            start == vo_split.value[1].mag
            within == vo_split.value[2].mag
        IN  /\ Len(within) <= 1
            /\ Norm(<<Limb(within, 1)>> \o start) = v
            /\ within = MagAnd(v, <<Radix - 1>>)
            /\ within = MagSub(v, MagShiftLeft16(start))

\* A virtual offset of four limbs with both components non-zero has been split.
C4_Witness ==
    /\ vo_split # NotCalled
    /\ Len(vo_split.arg.mag) = SplitWidth
    /\ vo_split.value[2].mag = <<21845>>
    /\ Len(vo_split.value[1].mag) = SplitWidth - 1

\* C5: after a write that returned, fewer than 65536 bytes are pending, every
\* block the write emitted carries exactly 65536 bytes, the emitted payloads
\* followed by the pending bytes are the bytes pending before followed by
\* the data, and a write that keeps the total below 65536 emits nothing.
C5_Write ==
    (last.op = "write" /\ last.err = "none") =>
        /\ BLen(w_buffer) < BlockSize
        /\ EmittedDecode
        /\ \A i \in 1..Len(EmittedPayloads) : BLen(EmittedPayloads[i]) = BlockSize
        /\ BCat(BCatAll(EmittedPayloads), w_buffer) = BCat(last.pre, last.data)
        /\ (BLen(last.pre) + BLen(last.data) < BlockSize => Len(sink) = last.nsink)

\* A write that emitted two blocks and left bytes pending.
C5_Witness ==
    /\ last.op = "write" /\ last.err = "none"
    /\ Len(sink) = last.nsink + 2
    /\ w_buffer # <<>>

\* C6: a flush that returned has emitted at least one block, the last of
\* them holding what remained pending (a block without data when nothing was
\* pending), and nothing is pending after it.
C6_Flush ==
    (last.op = "flush" /\ last.err = "none") =>
        /\ w_buffer = <<>>
        /\ Len(sink) > last.nsink
        /\ EmittedDecode
        /\ BCatAll(EmittedPayloads) = last.pre
        /\ (last.pre = <<>> => Len(sink) = last.nsink + 1 /\ Payload(sink, Len(sink)) = <<>>)
        /\ BLen(Payload(sink, Len(sink))) < BlockSize

\* A flush with nothing pending has emitted a block without data.
C6_Witness ==
    /\ last.op = "flush" /\ last.err = "none"
    /\ last.pre = <<>>
    /\ Len(sink) = last.nsink + 1
    /\ Payload(sink, Len(sink)) = <<>>

\* The second of two flushes, the first called with nothing pending.
DoubleFlush ==
    /\ last.op = "flush" /\ last.err = "none"
    /\ last.prev.op = "flush" /\ last.prev.err = "none" /\ last.prev.idle

C8_Close ==
    (last.op = "close" /\ last.err = "none") =>
        /\ ~w_open
        /\ (0 < BLen(last.pre) /\ BLen(last.pre) < BlockSize) =>
              /\ Len(sink) = last.nsink + 1
              /\ Decodes(sink, Len(sink))
              /\ Payload(sink, Len(sink)) = last.pre
        /\ last.pre = <<>> => Len(sink) = last.nsink
        /\ (nops = 2 /\ last.prev.op = "write" /\ accepted # <<>>
            /\ BLen(accepted) < BlockSize) =>
              /\ Len(sink) = 1
              /\ Payload(sink, 1) = accepted
              /\ accepted # <<>>

\* A short write, then close: one block, holding the bytes written.
C8_Witness ==
    /\ last.op = "close" /\ last.err = "none"
    /\ nops = 2
    /\ BLen(accepted) = ShortLen
    /\ Len(sink) = 1
    /\ Payload(sink, 1) = accepted

\* C9: no block written to the sink is longer than 65536 bytes, payload or
\* framed, and none has a BC field cut short: the field is the framed
\* length minus one.  A compressed length that does not fit raises
\* (C9_Witness) and writes nothing.
C9_BlockSizeBound ==
    /\ \A i \in 1..Len(sink) :
          /\ FramedSize(sink[i]) <= BlockSize
          /\ BLen(sink[i].deflate.plain) <= BlockSize
          /\ UnpackH(sink[i].subfields[1].data) + 1 = FramedSize(sink[i])
    /\ last.err \in {"AssertionError", "struct.error"} =>
          /\ BLen(last.pre) + BLen(last.data) = BLen(BCatAll(EmittedPayloads)) + BLen(w_buffer)
          /\ BLen(w_buffer) > 0

\* The compressor returned too much for the BC field and the operation raised.
C9_Witness ==
    /\ last.err = "struct.error"
    /\ Len(sink) = last.nsink
    /\ BLen(w_buffer) >= BlockSize

\* C10: a block is returned only if the length and the CRC in its trailer
\* are those of its data; a file with a changed trailer is never read to its
\* end: the iteration fails at the changed block with an assertion.
C10_DecodeIntegrity ==
    /\ \A i \in 1..Len(r_yielded) :
          /\ UnpackI(file[i].isize) = BLen(file[i].deflate.plain)
          /\ file[i].crc = PackMasked(crc32(file[i].deflate.plain))
          /\ file[i] = sink[i]
    /\ (r_state # "idle" /\ file # sink) => r_state # "ended"
    /\ (r_state = "failed" /\ file # sink) =>
          /\ r_err = "AssertionError"
          /\ file[r_pos] # sink[r_pos]

\* A file whose second block has a changed trailer: the first block was
\* returned, the second failed.
C10_Witness ==
    /\ r_state = "failed"
    /\ r_err = "AssertionError"
    /\ file # sink
    /\ Len(r_yielded) = 1

\* The block at the handle starts with the four bytes of a BGZF block.
MagicAt(f, pos) == pos <= Len(f) /\ f[pos].magic = Magic

\* C11: at a block boundary the decoder ends the iteration cleanly exactly
\* when no byte is left, and raises ValueError exactly when bytes are left
\* whose first four are not 1F 8B 08 04 (fewer than four bytes included).
C11_Boundary ==
    r_state \in {"ended", "failed"} =>
        /\ (r_pos > Len(file)) <=> (r_state = "ended" /\ r_err = "StopIteration")
        /\ (r_pos <= Len(file) /\ ~MagicAt(file, r_pos))
              <=> (r_state = "failed" /\ r_err = "ValueError")

C11_Witness ==
    /\ r_state = "failed" /\ r_err = "ValueError"
    /\ r_pos = 2 /\ Len(r_yielded) = 1
    /\ Len(file[r_pos].magic) < 4

\* The number of BC subfields of a header, and whether all have two bytes.
BCs(b) == { i \in 1..Len(b.subfields) : b.subfields[i].id = BC }

GoodExtra(b) ==
    /\ Cardinality(BCs(b)) = 1
    /\ \A i \in BCs(b) : UnpackH(b.subfields[i].len) = 2
    /\ SubfieldsSize(b.subfields) = UnpackH(b.xlen)

\* C12: a block whose magic is right is decoded exactly when its subfields
\* fill extra_len exactly and hold one BC subfield, of two bytes; any other
\* extra field (no BC, two BC, a BC of another length, subfields running
\* past extra_len) fails an assertion.  Other subfields are skipped.
C12_ExtraField ==
    /\ \A i \in 1..Len(r_yielded) : GoodExtra(file[i])
    /\ (r_state \in {"ended", "failed"} /\ MagicAt(file, r_pos)) =>
          /\ ~GoodExtra(file[r_pos])
          /\ r_state = "failed" /\ r_err = "AssertionError"

C12_Witness ==
    /\ Len(file) = 3 /\ r_state = "ended"
    /\ Len(file[2].subfields) = 2
    /\ file[2].subfields[1].id = XX
    /\ Len(r_yielded) = 3

\* The exceptions the decoder rejects a malformed stream with.
FormatErrors == { "ValueError", "AssertionError" }

\* The reader holds block i of f, with the cursor at c.
Holds(self, f, i, c) ==
    /\ self # NoReader
    /\ self._block_start_offset = BigOfInt(Offset(f, i))
    /\ self._buffer = f[i].deflate.plain
    /\ self._within_block_offset = c

\* C13: constructing a BgzfReader on a file that starts with a well formed
\* block leaves the reader with the first block, of offset 0, and the cursor
\* at 0; on an empty file it fails with a format error, which is not the
\* StopIteration that marks the clean end of a stream.
C13_Open ==
    rd_last.op = "open" =>
        IF file = <<>>
        THEN rd_last.out.kind = "raise" /\ rd_last.out.error \in FormatErrors
        ELSE rd_last.out.kind = "ok" /\ Holds(rd, file, 1, 0)

\* The decoded content of a file all of whose blocks are spelled out.
Spelled(f) == \A i \in 1..Len(f) : Following(f[i]) = 0

Content(f) == BCatAll([i \in 1..Len(f) |-> f[i].deflate.plain])

\* The bytes returned by the reads before the last call.
Before ==
    IF rd_last.out.kind = "ok" /\ rd_last.op = "read"
    THEN rd_last.sofar - BLen(rd_last.out.value) ELSE rd_last.sofar

\* C14: on a reader on which only read and tell have been called since it
\* was opened, a read of n > 0 bytes that the content still holds returns the
\* next n bytes of the content, within a block or across blocks.
C14_Read ==
    (/\ rd_last.op = "read" /\ rd_last.arg > 0
     /\ Spelled(file) /\ rd_last.sofar # Unknown
     /\ Before + rd_last.arg <= BLen(Content(file))) =>
        rd_last.out = Returned(BTake(BDrop(Content(file), Before), rd_last.arg))

\* The exceptions that report a source that ended too early.
TruncatedStreamErrors == { "IOError", "EOFError", "ValueError" }

\* C15: a read of more bytes than the content still holds fails with an
\* exception that reports the truncation, not with the StopIteration of a
\* clean end of the stream.
C15_ReadPastData ==
    (/\ rd_last.op = "read" /\ rd_last.arg > 0
     /\ Spelled(file) /\ rd_last.sofar # Unknown
     /\ Before + rd_last.arg > BLen(Content(file))) =>
        /\ rd_last.out.kind = "raise"
        /\ rd_last.out.error \in TruncatedStreamErrors

\* block_start * 2**16 + within, for 0 <= within < 2**16.
Pack(block_start, within) == Big(FALSE, Norm(<<within>> \o block_start.mag))

\* C16: in every state of a reader tell returns the virtual offset of the
\* block it holds and of its cursor (every block start of the model is below
\* 2**48); after open that is 0; and a read of n bytes that returns and stays
\* inside the block moves the cursor, and so the virtual offset, by n.
C16_Tell ==
    /\ rd # NoReader =>
          BgzfReader_tell(rd)
             = Returned(Pack(rd._block_start_offset, rd._within_block_offset))
    /\ (rd_last.op = "open" /\ rd_last.out.kind = "ok") =>
          BgzfReader_tell(rd) = Returned(BigOfInt(0))
    /\ (/\ rd_last.op = "read" /\ rd_last.out.kind = "ok" /\ rd_last.arg > 0
        /\ rd_last.pre._within_block_offset + rd_last.arg < BLen(rd_last.pre._buffer)) =>
          /\ rd._block_start_offset = rd_last.pre._block_start_offset
          /\ rd._within_block_offset = rd_last.pre._within_block_offset + rd_last.arg

\* reader.seek(v) returns, and tell() is then v.
SeekReturns ==
    rd_last.op = "seek" =>
        /\ rd_last.out.kind = "ok"
        /\ BgzfReader_tell(rd) = Returned(rd_last.arg)

\* _load_block(start), for the start of a block other than the one held,
\* leaves the reader with the block that begins at start.
LoadBlockRepositions ==
    (rd_last.op = "_load_block"
        /\ rd_last.arg # rd_last.pre._block_start_offset) =>
          /\ rd_last.out.kind = "ok"
          /\ Holds(rd, file, SeekPos(file, rd_last.arg), 0)

\* C17: a seek to a virtual offset in another block than the one held
\* repositions the source at the start of that block, 0 included, decodes
\* the block there and sets the cursor, so that tell() returns the offset.
C17_Seek == SeekReturns /\ LoadBlockRepositions

\* C18: tell() on a writer whose handle is open returns the virtual offset
\* made of the length of the file written so far and of the length of the
\* buffer.
C18_WriterTell ==
    (w_told # NotCalled /\ w_open) =>
        /\ w_told.kind = "ok"
        /\ BLen(w_buffer) < Radix
        /\ w_told.value = Pack(BigOfInt(FileSize(sink)), BLen(w_buffer))

\* C19: once close has returned, no call changes the buffer or the file, and
\* the handle stays closed.
C19_ClosedTerminal ==
    [][~w_open => (w_buffer' = w_buffer /\ sink' = sink /\ ~w_open')]_vars

\* What the blocks of the sink decode to, joined in order.
SinkContent == BCatAll([i \in 1..Len(sink) |-> Payload(sink, i)])

\* C20: after a write or a flush that raised, the bytes passed to write so
\* far are the decoded content of the blocks emitted followed by the buffer:
\* nothing lost, nothing twice; and after a flush that returned, the blocks
\* emitted decode to all the bytes passed to write so far.
C20_ErrorKeepsBuffer ==
    /\ (last.op \in {"write", "flush"} /\ last.err # "none") =>
          BCat(SinkContent, w_buffer) = accepted
    /\ (last.op = "flush" /\ last.err = "none") =>
          /\ w_buffer = <<>>
          /\ SinkContent = accepted

\* A write that the sink refused, leaving a full block or more in the
\* buffer, then a flush that returned, emitting it in two blocks or more.
C20_Witness ==
    /\ last.op = "flush" /\ last.err = "none"
    /\ last.prev.op = "write" /\ last.prev.err = "IOError"
    /\ BLen(last.pre) >= BlockSize
    /\ Len(sink) > last.nsink + 1
    /\ SinkContent = accepted

\* The exceptions _load_bgzf_block raises for a block whose first four
\* bytes or whose extra field are malformed, over the headers of DecodeFiles.
FormatFailures ==
    { load_bgzf_block(f, Len(f)).error :
        f \in { g \in DecodeFiles : g # <<>> /\ load_bgzf_block(g, Len(g)).kind = "raise"
                                    /\ ~(MagicAt(g, Len(g)) /\ GoodExtra(g[Len(g)])) } }

\* The exceptions make_virtual_offset raises for arguments out of range.
RangeFailures ==
    { make_virtual_offset(b, w).error :
        <<b, w>> \in { x \in BlockStarts \X Withins :
                         make_virtual_offset(x[1], x[2]).kind = "raise" } }

\* C21: the failure kinds can be told apart by the type of the exception: a
\* block whose CRC or length does not match (the only way the decoder fails
\* on a file made by the writer) is not reported with an exception that is
\* also raised for a malformed header, for a virtual offset out of range or
\* for the clean end of the stream.
C21_TypedFailures ==
    r_state = "failed" =>
        r_err \notin FormatFailures \cup RangeFailures \cup {"StopIteration"}

\* The sum of the block lengths of the first n triples yielded.
RECURSIVE YieldedLength(_, _)
YieldedLength(ys, n) == IF n = 0 THEN 0 ELSE YieldedLength(ys, n - 1) + ys[n][2]

\* C22: every block the writer emitted holds in BC the number of bytes
\* written for it less one, that number being 12 + 6 + len(compressed) + 4 + 4;
\* and the blocks BgzfBlocks yields from the writer's stream chain: the first
\* starts at 0 and each starts where the one before started plus its
\* reported length.
C22_Chaining ==
    /\ \A i \in 1..Len(sink) :
          /\ Len(sink[i].subfields) = 1
          /\ sink[i].subfields[1].id = BC
          /\ FramedSize(sink[i]) = 12 + 6 + sink[i].deflate.clen + 4 + 4
          /\ UnpackH(sink[i].subfields[1].data) = FramedSize(sink[i]) - 1
    /\ \A i \in 1..Len(r_yielded) :
          r_yielded[i][1] = BigOfInt(YieldedLength(r_yielded, i - 1))

\* Three blocks of different lengths have been yielded, up to the end.
C22_Witness ==
    /\ r_state = "ended"
    /\ Len(r_yielded) >= 3
    /\ r_yielded[1][2] # r_yielded[2][2]
    /\ r_yielded[3][1] = BigOfInt(r_yielded[1][2] + r_yielded[2][2])
    /\ r_yielded[3][1] # BigOfInt(0)

\* C23: in every sequence of write, flush and close calls, also after a
\* write or a flush that failed, every payload passed to _write_block is of
\* at most 65536 bytes.
C23_PayloadFits ==
    \A i \in 1..Len(last.calls) : last.calls[i] <= BlockSize

\* A flush entered with more than a block pending, after a write that
\* failed, has called _write_block twice.
C23_Witness ==
    /\ last.op = "flush"
    /\ last.prev.op = "write" /\ last.prev.err # "none"
    /\ BLen(last.pre) > BlockSize
    /\ Len(last.calls) = 2
    /\ last.calls[1] + last.calls[2] = BLen(last.pre)

\* C24: a flush entered with 65536 or more bytes pending passes exactly
\* 65536 bytes of payload in every block before the last one, and in the last
\* one the remainder, which is shorter than 65536 bytes.
C24_FlushChunks ==
    (last.op = "flush" /\ last.err = "none" /\ BLen(last.pre) >= BlockSize) =>
        /\ Len(last.calls) >= 2
        /\ \A i \in 1..(Len(last.calls) - 1) : last.calls[i] = BlockSize
        /\ last.calls[Len(last.calls)] < BlockSize

\* C25: a read of n > 0 bytes that ends exactly at the end of the current
\* block returns the n bytes that remain of that block and leaves the reader
\* on that block, whether or not another block follows.
C25_ReadToBlockEnd ==
    (/\ rd_last.op = "read" /\ rd_last.arg > 0
     /\ rd_last.pre._within_block_offset + rd_last.arg = BLen(rd_last.pre._buffer)) =>
        /\ rd_last.out = Returned(BDrop(rd_last.pre._buffer,
                                        rd_last.pre._within_block_offset))
        /\ rd._block_start_offset = rd_last.pre._block_start_offset

\* C26: on every finite file the iteration of BgzfBlocks comes to an end,
\* by the exhaustion of the file or by a failure, and every call of
\* BgzfReader.read that has been entered returns or raises, also on files
\* that hold blocks without data.
C26_Terminates ==
    /\ (r_state = "iterating") ~> (r_state \in {"ended", "failed"})
    /\ (rd_last.op = "reading") ~> (rd_last.op = "read")

\* The iteration has ended after a block without data, and a call of read
\* on that file is over.
C26_Witness ==
    /\ r_state = "ended"
    /\ \E i \in 1..Len(r_yielded) : r_yielded[i][3] = 0 /\ i < Len(file)
    /\ rd_last.op = "read" /\ rd_last.arg > 0

\* C27: whenever the last call on an open writer was a write or a flush
\* that returned, the payloads of the blocks emitted so far, in order,
\* followed by the pending buffer are the data passed to write so far; and no
\* step changes or removes a block that has been emitted.
C27_Content ==
    /\ []((w_open /\ last.op \in {"write", "flush"} /\ last.err = "none") =>
             BCat(SinkContent, w_buffer) = accepted)
    /\ [][Len(sink') >= Len(sink) /\ SubSeq(sink', 1, Len(sink)) = sink]_vars

\* Four calls that returned, the last a write after a flush, have emitted
\* two blocks or more and left bytes pending.
C27_Witness ==
    /\ w_open /\ nops = MaxOps
    /\ last.op = "write" /\ last.err = "none"
    /\ last.prev.op = "flush" /\ last.prev.err = "none"
    /\ Len(sink) >= 2
    /\ w_buffer # <<>>
    /\ BCat(SinkContent, w_buffer) = accepted

\* C28: once close has returned, the stream holds at least one block and a
\* BgzfReader can be constructed on it, also when no data was written.
C28_SessionHasBlock ==
    Closed => (Len(sink) >= 1 /\ BgzfReader_init(sink).out.kind = "ok")

\* The result of the loop over the subfields of header b, and whether the
\* block at pos passes the tests of the magic and of the extra field.
Walked(b) == WalkSubfields(b.subfields, 1, 0, NoBlockSize, UnpackH(b.xlen))

PassesChecks(f, pos) ==
    /\ MagicAt(f, pos)
    /\ Walked(f[pos]).kind = "ok"
    /\ Walked(f[pos]).value[1] = UnpackH(f[pos].xlen)
    /\ Walked(f[pos]).value[2] # NoBlockSize

\* deflate_size = block_size - 1 - extra_len - 19
DeflateSize(b) == Walked(b).value[2] - 1 - UnpackH(b.xlen) - FixedBytes

\* C29: a header that passes the tests of the magic and of BC, when the
\* decoding of its block fails after them, has given a deflate_size that is
\* not negative (as has every block decoded), and every block that was decoded
\* took block_size bytes, the handle being left at start_offset + block_size,
\* the start of the next block.
C29_InsideBlock ==
    /\ (r_state = "failed" /\ PassesChecks(file, r_pos)) =>
          DeflateSize(file[r_pos]) >= 0
    /\ \A i \in 1..Len(r_yielded) :
          /\ r_yielded[i][2] = FramedSize(file[i])
          /\ BigOfInt(Offset(file, i) + r_yielded[i][2]) = BigOfInt(Offset(file, i + 1))

\* C30: a block whose compressed length passed the test against 65536 is
\* emitted: no operation fails in the packing of BC, which comes after that
\* test, so every compressed length below 65536 gives a BC value that fits
\* in two bytes.
C30_CheckSufficient ==
    last.err # "struct.error"

====
